---- MODULE Spec2Model ----
(***************************************************************************)
(* A model of src/src/scripts/biosignal.py: the process-wide `biosignal`   *)
(* dictionary, the boundary operations that the host calls on it, and the  *)
(* channel derivation of biosignal_calculate_signals.                      *)
(*                                                                         *)
(* Conventions.                                                            *)
(*  - A Python list or numpy array is a sequence; Python index i is the    *)
(*    sequence index i + 1.                                                *)
(*  - Python None is the empty sequence <<>>, a present value x is <<x>>.  *)
(*  - A Python dict is a record; `key in dict` is key \in DOMAIN dict.     *)
(*  - Sample values are integers.  The host's samples are multiples of Den *)
(*    so that the mean of up to NumBufs windows is an exact integer.       *)
(*  - scipy's sosfiltfilt is not computed numerically: a signal carries    *)
(*    the samples `v` of the unfiltered signal at its positions and the    *)
(*    chain `f` of coefficient sets it has been filtered with.             *)
(***************************************************************************)
EXTENDS Integers, Sequences, FiniteSets, TLC

VARIABLES
    available_montages, \* biosignal['available_montages']: name -> channel list
    buffers,            \* biosignal['buffers']: None or the attached host buffers
    data_fields,        \* biosignal['data_fields']: header field positions
    data_pos,           \* biosignal['data_pos']: position of the first sample
    filters,            \* biosignal['filters']: the default filter configuration
    input,              \* biosignal['input']: None or the snapshot of the buffers
    montage,            \* biosignal['montage']: None or the active montage
    output,             \* biosignal['output']: None or the attached output views
    raw,                \* the host's raw buffers (header fields, then samples)
    prod,               \* the producer's progress on each raw buffer
    heap,               \* the channel lists that names and `montage` refer to
    ret                 \* what the call that has just run handed to the host

vars == <<available_montages, buffers, data_fields, data_pos, filters, input,
          montage, output, raw, prod, heap, ret>>

-----------------------------------------------------------------------------
(* Bounds of the model. *)

NumBufs == 2        \* raw buffers of the host
MaxLen == 5         \* samples per raw buffer
ChunkLen == 4       \* samples the producer writes before it moves the watermarks
MaxCap == 2         \* capacity of an output view
MaxChans == 2       \* channels in one derivation request
MaxObjs == 3        \* channel lists ever registered

(* Program constants. *)

empty_field == -16777215
DefaultDataPos == 3
N_pass == 6
N_stop == 9

-----------------------------------------------------------------------------
(* Python and numpy primitives. *)

None == <<>>
Some(x) == <<x>>
IsNone(o) == Len(o) = 0
Val(o) == o[1]

Min(a, b) == IF a < b THEN a ELSE b
Max(a, b) == IF a > b THEN a ELSE b

Range(s) == { s[i] : i \in DOMAIN s }

\* list[i]: valid for -n <= i < n, negative indices count from the end.
PyIndexOK(n, i) == -n <= i /\ i < n
PyIndex(n, i) == IF i < 0 THEN i + n ELSE i
At(s, i) == s[PyIndex(Len(s), i) + 1]

\* slice.indices(n) of one bound of s[a:b].
SliceBound(n, i) == IF i < 0 THEN Max(i + n, 0) ELSE Min(i, n)

\* s[a:b]
PySlice(s, a, b) ==
    LET lo == SliceBound(Len(s), a)
        hi == SliceBound(Len(s), b)
    IN  IF lo < hi THEN SubSeq(s, lo + 1, hi) ELSE <<>>

\* s[:b] and s[a:]
PyUpTo(s, b) == PySlice(s, 0, b)
PyFrom(s, a) == PySlice(s, a, Len(s))

\* the positions s[a:b] reads
SlicePositions(n, a, b) == { p \in 0 .. n - 1 : SliceBound(n, a) <= p /\ p < SliceBound(n, b) }

\* np.zeros(n) for n >= 0
Zeros(n) == [i \in 1 .. n |-> 0]

\* np.pad(s, (a, b), 'constant')
NpPad(s, a, b) == Zeros(a) \o s \o Zeros(b)

\* np.delete(s, np.s_[a:b])
NpDelete(s, a, b) ==
    LET lo == SliceBound(Len(s), a)
        hi == SliceBound(Len(s), b)
    IN  IF lo < hi THEN SubSeq(s, 1, lo) \o SubSeq(s, hi + 1, Len(s)) ELSE s

\* Two 1-d shapes broadcast when they are equal or one of them is 1.
Broadcasts(n, m) == n = m \/ n = 1 \/ m = 1
BroadcastLen(n, m) == IF n = 1 THEN m ELSE n
Stretch(s, n) == IF Len(s) = n THEN s ELSE [i \in 1 .. n |-> s[1]]

\* a - b of two arrays whose shapes broadcast
NpSub(a, b) ==
    LET n == BroadcastLen(Len(a), Len(b))
        x == Stretch(a, n)
        y == Stretch(b, n)
    IN  [i \in 1 .. n |-> x[i] - y[i]]

RECURSIVE SumAt(_, _)
SumAt(rows, i) ==
    IF rows = <<>> THEN 0 ELSE Head(rows)[i] + SumAt(Tail(rows), i)

\* np.mean(rows, axis=0) of rows of one length
NpMean(rows) == [i \in 1 .. Len(rows[1]) |-> SumAt(rows, i) \div Len(rows)]

RECURSIVE Fact(_)
Fact(n) == IF n <= 1 THEN 1 ELSE n * Fact(n - 1)

\* The common denominator of the means of up to NumBufs windows.
Den == Fact(NumBufs)

-----------------------------------------------------------------------------
(* The host's raw buffers and their producer.  A raw buffer is a flat      *)
(* array: the header fields (sampling rate, updated_start, updated_end)    *)
(* and from data_pos on the samples.  The watermarks are sample indices:   *)
(* [updated_start, updated_end) has been written; empty_field in           *)
(* updated_start says that nothing has been written yet.                   *)

BufIds == 0 .. NumBufs - 1

\* The sampling rate in the header of raw buffer b.
Fs(b) == 8 * (b + 1)

\* The sample the producer writes at sample index i of raw buffer b.
Sample(b, i) == Den * (b * (MaxLen + 1) + i + 1)

\* A raw buffer of n samples before the producer has written anything.
EmptyRaw(b, n) == <<Fs(b), empty_field, empty_field>> \o Zeros(n)

RawLen(buf) == Len(buf) - DefaultDataPos

\* The producer writes sample i of raw buffer b (the watermarks stay).
WriteSample(buf, b, i) == [buf EXCEPT ![DefaultDataPos + i + 1] = Sample(b, i)]

\* The producer publishes the written range [lo, hi) in the watermarks.
Publish(buf, lo, hi) == [buf EXCEPT ![2] = lo, ![3] = hi]

Published(buf, p) ==
    IF p.lo = p.hi THEN buf[2] = empty_field ELSE buf[2] = p.lo /\ buf[3] = p.hi

-----------------------------------------------------------------------------
(* Filter design and filtering (scipy.signal), as far as the program       *)
(* depends on them.                                                        *)

\* signal.butter(N, Wn, btype, output='sos', fs=fs): the coefficient set is a
\* function of its arguments; band is <<Wn>> or <<low, high>>.
Butter(N, band, btype, fs) == [N |-> N, band |-> band, btype |-> btype, fs |-> fs]

\* butter rejects critical frequencies outside 0 < Wn < fs/2.
ButterOK(N, band, fs) ==
    /\ N >= 0
    /\ fs > 0
    /\ \A i \in DOMAIN band : 0 < band[i] /\ 2 * band[i] < fs

\* sosfiltfilt pads each edge by padlen = 3 * ntaps samples and rejects an
\* input that is not longer: ntaps is order + 1, a bandstop of order N has
\* 2N poles.
SosPadLen(sos) == IF sos.btype = "bandstop" THEN 3 * (2 * sos.N + 1) ELSE 3 * (sos.N + 1)
SosFiltFiltOK(sos, n) == n > SosPadLen(sos)

-----------------------------------------------------------------------------
(* biosignal_get_filter_coefficients.  An entry of biosignal['filters'] is *)
(* [tag |-> "none"], [tag |-> "num", num |-> n] or                         *)
(* [tag |-> "flt", Wn |-> w, N |-> None or <<n>>].                         *)

NoneEntry == [tag |-> "none"]
NumEntry(n) == [tag |-> "num", num |-> n]
FltEntry(w, n) == [tag |-> "flt", Wn |-> w, N |-> n]

\* `N or default`: None and 0 give the default.
OrDefault(N, default) == IF IsNone(N) \/ Val(N) = 0 THEN default ELSE NumEntry(Val(N))

\* The order and the band that btype, Wn and N select; the default order of
\* the kind is read from biosignal['filters'].
FilterOrder(flt, btype, N) ==
    OrDefault(N, IF btype = "notch" THEN flt.N_stop ELSE flt.N_pass)
FilterBand(btype, Wn) == IF btype = "notch" THEN <<Wn - 1, Wn + 1>> ELSE <<Wn>>
FilterType(btype) == IF btype = "notch" THEN "bandstop" ELSE btype

\* Whether the design succeeds (butter raises otherwise).
CoefficientsOK(flt, btype, Wn, fs, N) ==
    /\ FilterOrder(flt, btype, N).tag = "num"
    /\ ButterOK(FilterOrder(flt, btype, N).num, FilterBand(btype, Wn), fs)

biosignal_get_filter_coefficients(flt, btype, Wn, fs, N) ==
    Butter(FilterOrder(flt, btype, N).num, FilterBand(btype, Wn), FilterType(btype), fs)

-----------------------------------------------------------------------------
(* The steps of biosignal_calculate_signals on one channel.                *)

\* lines 123-145: the padding, the read range and the freshness check.
Freshness(chan, act, dpos, dfields) ==
    LET act_len == Len(act) - dpos
        pad_start == IF chan.start < 0 THEN -1 * chan.start ELSE 0
        pad_end == IF chan.end > act_len THEN chan.end - act_len ELSE 0
        start_pos == dpos + chan.start + pad_start
        end_pos == dpos + chan.end - pad_end
        us == At(act, dfields.updated_start)
        ue == At(act, dfields.updated_end)
    IN  [ act_len |-> act_len,
          sig_fs |-> At(act, dfields.sampling_rate),
          pad_start |-> pad_start,
          pad_end |-> pad_end,
          start_pos |-> start_pos,
          end_pos |-> end_pos,
          updated_start |-> us,
          updated_end |-> ue,
          ready |-> /\ ~(us > start_pos \/ us = empty_field)
                    /\ ~(ue < act_len /\ ue < end_pos) ]

\* line 147 (and 162-166, 170-174): the padded window of one buffer.
Window(sigbuf, fr) == NpPad(PySlice(sigbuf, fr.start_pos, fr.end_pos), fr.pad_start, fr.pad_end)

\* lines 150-154: one gap spliced in.
InsertGap(sig, gap) == PyUpTo(sig, gap[1]) \o Zeros(gap[2] - gap[1]) \o PyFrom(sig, gap[1])

\* np.zeros raises on a negative length.
GapsOK(gaps) == \A i \in DOMAIN gaps : gaps[i][2] - gaps[i][1] >= 0

\* lines 149-154: the gaps spliced in, in list order.
RECURSIVE InsertGaps(_, _)
InsertGaps(sig, gaps) ==
    IF gaps = <<>> THEN sig ELSE InsertGaps(InsertGap(sig, Head(gaps)), Tail(gaps))

\* lines 236-240: one gap removed.
RemoveGap(sig, gap) == IF gap[1] = gap[2] THEN sig ELSE NpDelete(sig, gap[1], gap[2])

\* A faulty de-gap that removes the gaps first gap first; C10 does not hold
\* of it.
RECURSIVE RemoveGaps_FirstFirst(_, _)
RemoveGaps_FirstFirst(sig, gaps) ==
    IF gaps = <<>> THEN sig
    ELSE RemoveGaps_FirstFirst(RemoveGap(sig, Head(gaps)), Tail(gaps))

\* lines 235-240: the gaps removed, last gap first.
RECURSIVE RemoveGaps(_, _)
RemoveGaps(sig, gaps) ==
    IF gaps = <<>> THEN sig
    ELSE RemoveGaps(RemoveGap(sig, gaps[Len(gaps)]), SubSeq(gaps, 1, Len(gaps) - 1))

\* lines 242-243: the filter padding trimmed.
Trim(sig, chan) ==
    IF chan.filter_len > 0 THEN PySlice(sig, chan.trim_start, chan.trim_end) ELSE sig

\* A faulty fit that drops the leading samples; C4 does not hold of it.
Fit_DropLeading(sig, cap) ==
    IF Len(sig) > cap THEN PyFrom(sig, Len(sig) - cap) ELSE sig

\* lines 245-247: the signal fitted into an output of capacity cap.
Fit(sig, cap) ==
    IF Len(sig) > cap THEN PyUpTo(sig, -1 * (Len(sig) - cap)) ELSE sig


\* lines 161-176: the reference indices that are read, and whether reading
\* and averaging them succeeds (an index outside the input list and windows
\* of different lengths under np.mean raise).
ReferenceOK(chan, input_sigs, fr) ==
    /\ \A i \in DOMAIN chan.reference : PyIndexOK(Len(input_sigs), chan.reference[i])
    /\ \A i, j \in DOMAIN chan.reference :
          Len(Window(At(input_sigs, chan.reference[i]), fr))
              = Len(Window(At(input_sigs, chan.reference[j]), fr))

\* lines 159-184: the reference computed from the channel's own list.
Reference(chan, input_sigs, fr, sig_act) ==
    LET refs == chan.reference
        wins == [i \in DOMAIN refs |-> Window(At(input_sigs, refs[i]), fr)]
    IN  IF Len(refs) = 0 THEN Zeros(Len(sig_act))
        ELSE InsertGaps(IF Len(refs) = 1 THEN wins[1] ELSE NpMean(wins), chan.data_gaps)

\* The raw positions that line 147 and lines 163, 171 read.
ActiveReads(chan, input_sigs, fr) ==
    LET b == PyIndex(Len(input_sigs), chan.active)
    IN  { <<b, p>> : p \in SlicePositions(Len(input_sigs[b + 1]), fr.start_pos, fr.end_pos) }

ReferenceReads(chan, input_sigs, fr) ==
    UNION { LET b == PyIndex(Len(input_sigs), chan.reference[i])
            IN  { <<b, p>> : p \in SlicePositions(Len(input_sigs[b + 1]), fr.start_pos, fr.end_pos) }
          : i \in DOMAIN chan.reference }

\* lines 156-157, 186-187: the common reference cache, a set of
\* [type, sig, reads] entries with at most one entry per type.
HasCommonRef(cache, type) == \E e \in cache : e.type = type
CommonRef(cache, type) == CHOOSE e \in cache : e.type = type
StoreCommonRef(cache, type, sig, reads) ==
    { e \in cache : e.type # type } \cup { [type |-> type, sig |-> sig, reads |-> reads] }

\* line 156: whether the channel takes its reference from the cache.
UsesCommonRef(chan, cache) == chan.common_ref /\ HasCommonRef(cache, chan.type)

\* lines 196, 210, 219: a kind is filtered when its critical frequency is truthy.
FilterSelected(chan, kind) ==
    /\ ~IsNone(chan.filters)
    /\ ~IsNone(Val(chan.filters)[kind])
    /\ Val(Val(chan.filters)[kind]) # 0

\* lines 197-204 (210-218, 219-227): the coefficient cache of one kind, a set
\* of [key, sos] entries; the key is (sampling rate, critical frequency).
\* (FilterKey_NoRate is a faulty key without the sampling rate; C9 does not
\* hold of it.)
FilterKey_NoRate(sig_fs, Wn) == <<0, Wn>>
FilterKey(sig_fs, Wn) == <<sig_fs, Wn>>
HasCoeffs(cache, key) == \E e \in cache : e.key = key
Coeffs(cache, key) == (CHOOSE e \in cache : e.key = key).sos
StoreCoeffs(cache, key, sos) == { e \in cache : e.key # key } \cup { [key |-> key, sos |-> sos] }

\* One kind of lines 196-227: the cache after it, the coefficients to apply
\* (none when the kind is not selected), the designs invoked, and whether
\* the design raised.
KindCoeffs(chan, kind, cache, sig_fs, flt) ==
    IF ~FilterSelected(chan, kind)
    THEN [ok |-> TRUE, cache |-> cache, chain |-> <<>>, designs |-> <<>>]
    ELSE LET Wn == Val(Val(chan.filters)[kind])
             key == FilterKey(sig_fs, Wn)
         IN  IF HasCoeffs(cache, key)
             THEN [ok |-> TRUE, cache |-> cache, chain |-> <<Coeffs(cache, key)>>,
                   designs |-> <<>>]
             ELSE IF CoefficientsOK(flt, kind, Wn, sig_fs, None)
             THEN LET sos == biosignal_get_filter_coefficients(flt, kind, Wn, sig_fs, None)
                  IN  [ok |-> TRUE, cache |-> StoreCoeffs(cache, key, sos),
                       chain |-> <<sos>>,
                       designs |-> <<[btype |-> kind, Wn |-> Wn, fs |-> sig_fs]>>]
             ELSE [ok |-> FALSE, cache |-> cache, chain |-> <<>>,
                   designs |-> <<[btype |-> kind, Wn |-> Wn, fs |-> sig_fs]>>]


\* sosfiltfilt raises when the signal is not longer than the padding of one
\* of the coefficient sets applied (lines 228-233).
FilteringOK(chain, n) == \A i \in DOMAIN chain : SosFiltFiltOK(chain[i], n)

\* What the model records of one channel of a call.
BaseEntry(idx) ==
    [ idx |-> idx, outcome |-> "skip", failed |-> "", steps |-> <<>>,
      updated_start |-> 0, updated_end |-> 0, act_len |-> 0,
      start_pos |-> 0, end_pos |-> 0, sig_fs |-> 0, ready |-> FALSE,
      reads |-> {}, window |-> <<>>, sig_act |-> <<>>, sig_ref |-> <<>>, from_cache |-> FALSE,
      sig |-> <<>>, designs |-> <<>>, chain |-> <<>>,
      degapped |-> <<>>, trimmed |-> <<>>, cap |-> 0, written |-> <<>> ]

\* The entry after the freshness check of lines 123-145.
FreshEntry(idx, fr) ==
    [BaseEntry(idx) EXCEPT !.updated_start = fr.updated_start,
                           !.updated_end = fr.updated_end,
                           !.act_len = fr.act_len, !.start_pos = fr.start_pos,
                           !.end_pos = fr.end_pos, !.sig_fs = fr.sig_fs,
                           !.ready = fr.ready, !.steps = <<"freshness">>]

ChannelKeys == {"start", "end", "data_gaps", "common_ref", "type", "reference",
                "filters", "filter_len"}
FilterKinds == <<"highpass", "lowpass", "notch">>

\* The keys lines 149-243 look up: a missing one raises KeyError.
KeysOK(chan) ==
    /\ ChannelKeys \subseteq DOMAIN chan
    /\ ~IsNone(chan.filters) => Range(FilterKinds) \subseteq DOMAIN Val(chan.filters)
    /\ chan.filter_len > 0 => {"trim_start", "trim_end"} \subseteq DOMAIN chan

\* A channel of the call ends: it was skipped, not ready, or it raised.
Stop(kind, st, e, failed) ==
    [kind |-> kind, st |-> st, entry |-> [e EXCEPT !.outcome = kind, !.failed = failed]]

StepName(sos) == IF sos.btype = "bandstop" THEN "notch" ELSE sos.btype

\* lines 245-249: fit to the output view and write.  output[idx] raises for
\* an index past the list, and assign raises unless the lengths agree.
Write(idx, st, chain, trimmed, e) ==
    IF idx >= Len(st.out) THEN Stop("raise", st, e, "fit")
    ELSE IF Len(Fit(trimmed, Len(st.out[idx + 1].v))) # Len(st.out[idx + 1].v)
    THEN Stop("raise", st, [e EXCEPT !.cap = Len(st.out[idx + 1].v),
                                     !.steps = @ \o <<"fit">>], "write")
    ELSE [ kind |-> "written",
           st |-> [st EXCEPT !.out[idx + 1] =
                                [v |-> Fit(trimmed, Len(st.out[idx + 1].v)), f |-> chain]],
           entry |-> [e EXCEPT !.outcome = "written",
                               !.cap = Len(st.out[idx + 1].v),
                               !.written = Fit(trimmed, Len(st.out[idx + 1].v)),
                               !.steps = @ \o <<"fit", "write">>] ]

\* lines 234-243: the gaps removed and the filter padding trimmed.
Finish(chan, idx, st, chain, degapped, e) ==
    Write(idx, st, chain, Trim(degapped, chan),
          [e EXCEPT !.chain = chain, !.degapped = degapped,
                    !.trimmed = Trim(degapped, chan),
                    !.steps = @ \o [i \in DOMAIN chain |-> StepName(chain[i])]
                                \o <<"degap">>
                                \o (IF chan.filter_len > 0 THEN <<"trim">> ELSE <<>>)])

\* The filters, were the lowpass applied before the highpass.
Filter_LowpassFirst(chan, idx, st, sig, hp, lp, nt, e) ==
    IF ~hp.ok THEN Stop("raise", st, [e EXCEPT !.designs = hp.designs], "design")
    ELSE IF ~lp.ok
    THEN Stop("raise", st, [e EXCEPT !.designs = hp.designs \o lp.designs], "design")
    ELSE IF ~nt.ok
    THEN Stop("raise", st, [e EXCEPT !.designs = hp.designs \o lp.designs \o nt.designs],
              "design")
    ELSE IF ~FilteringOK(lp.chain \o hp.chain \o nt.chain, Len(sig))
    THEN Stop("raise", st, [e EXCEPT !.designs = hp.designs \o lp.designs \o nt.designs],
              "filter")
    ELSE Finish(chan, idx,
                [st EXCEPT !.hp_coeffs = hp.cache, !.lp_coeffs = lp.cache,
                           !.notch_coeffs = nt.cache],
                lp.chain \o hp.chain \o nt.chain,
                RemoveGaps(sig, chan.data_gaps),
                [e EXCEPT !.designs = hp.designs \o lp.designs \o nt.designs])

\* lines 189-233: the coefficients of the three kinds, then the filtering.
Filter(chan, idx, st, sig, hp, lp, nt, e) ==
    IF ~hp.ok THEN Stop("raise", st, [e EXCEPT !.designs = hp.designs], "design")
    ELSE IF ~lp.ok
    THEN Stop("raise", st, [e EXCEPT !.designs = hp.designs \o lp.designs], "design")
    ELSE IF ~nt.ok
    THEN Stop("raise", st, [e EXCEPT !.designs = hp.designs \o lp.designs \o nt.designs],
              "design")
    ELSE IF ~FilteringOK(hp.chain \o lp.chain \o nt.chain, Len(sig))
    THEN Stop("raise", st, [e EXCEPT !.designs = hp.designs \o lp.designs \o nt.designs],
              "filter")
    ELSE Finish(chan, idx,
                [st EXCEPT !.hp_coeffs = hp.cache, !.lp_coeffs = lp.cache,
                           !.notch_coeffs = nt.cache],
                hp.chain \o lp.chain \o nt.chain,
                RemoveGaps(sig, chan.data_gaps),
                [e EXCEPT !.designs = hp.designs \o lp.designs \o nt.designs])

\* line 188: the reference subtracted (the shapes must broadcast), and lines
\* 186-187: the reference kept for the channels of its type.
Subtract(chan, idx, st, flt, sig_fs, sig_act, ref, e) ==
    IF ~Broadcasts(Len(sig_act), Len(ref.sig))
    THEN Stop("raise", st, [e EXCEPT !.sig_ref = ref.sig, !.reads = @ \cup ref.reads],
              "reference")
    ELSE Filter(chan, idx,
                IF chan.common_ref /\ ~e.from_cache
                THEN [st EXCEPT !.common_ref = StoreCommonRef(@, chan.type, ref.sig, ref.reads)]
                ELSE st,
                NpSub(sig_act, ref.sig),
                KindCoeffs(chan, "highpass", st.hp_coeffs, sig_fs, flt),
                KindCoeffs(chan, "lowpass", st.lp_coeffs, sig_fs, flt),
                KindCoeffs(chan, "notch", st.notch_coeffs, sig_fs, flt),
                [e EXCEPT !.sig_ref = ref.sig, !.reads = @ \cup ref.reads,
                          !.sig = NpSub(sig_act, ref.sig),
                          !.steps = @ \o <<"reference">>])

\* lines 155-184: the reference, from the cache or from the channel's list.
Refer(chan, idx, st, input_sigs, flt, fr, sig_act, e) ==
    IF UsesCommonRef(chan, st.common_ref)
    THEN Subtract(chan, idx, st, flt, fr.sig_fs, sig_act,
                  CommonRef(st.common_ref, chan.type),
                  [e EXCEPT !.from_cache = TRUE])
    ELSE IF ~ReferenceOK(chan, input_sigs, fr) THEN Stop("raise", st, e, "reference")
    ELSE Subtract(chan, idx, st, flt, fr.sig_fs, sig_act,
                  [sig |-> Reference(chan, input_sigs, fr, sig_act),
                   reads |-> ReferenceReads(chan, input_sigs, fr)],
                  e)

\* lines 146-154: the window of the active buffer with the gaps spliced in.
Extract(chan, idx, st, input_sigs, flt, act, fr, e) ==
    IF ~KeysOK(chan) THEN Stop("raise", st, e, "extract")
    ELSE IF ~GapsOK(chan.data_gaps) THEN Stop("raise", st, e, "extract")
    ELSE Refer(chan, idx, st, input_sigs, flt, fr,
               InsertGaps(Window(act, fr), chan.data_gaps),
               [e EXCEPT !.window = Window(act, fr),
                         !.sig_act = InsertGaps(Window(act, fr), chan.data_gaps),
                         !.reads = ActiveReads(chan, input_sigs, fr),
                         !.steps = @ \o <<"extract">>])

\* lines 134-145: the call returns when the channel's range is not loaded.
CheckFreshness(chan, idx, st, input_sigs, flt, act, fr) ==
    IF ~fr.ready
    THEN Stop("notready", st, FreshEntry(idx, fr), "freshness")
    ELSE Extract(chan, idx, st, input_sigs, flt, act, fr, FreshEntry(idx, fr))

\* lines 119-249: one pass of the loop body on channel idx, from the caches
\* and outputs st that the earlier channels left.
Derive(chan, idx, st, input_sigs, dpos, dfields, flt) ==
    IF "active" \notin DOMAIN chan THEN Stop("skip", st, BaseEntry(idx), "")
    ELSE IF ~PyIndexOK(Len(input_sigs), chan.active)
    THEN Stop("raise", st, BaseEntry(idx), "freshness")
    ELSE IF ~({"start", "end"} \subseteq DOMAIN chan)
    THEN Stop("raise", st, BaseEntry(idx), "freshness")
    ELSE CheckFreshness(chan, idx, st, input_sigs, flt, At(input_sigs, chan.active),
                        Freshness(chan, At(input_sigs, chan.active), dpos, dfields))

\* lines 118-249: the loop over the channels from channel idx on.
RECURSIVE Loop(_, _, _, _, _, _, _)
Loop(channels, idx, st, input_sigs, dpos, dfields, flt) ==
    IF idx >= Len(channels) THEN [st EXCEPT !.status = "done"]
    ELSE LET d == Derive(channels[idx + 1], idx, st, input_sigs, dpos, dfields, flt)
             next == [d.st EXCEPT !.log = Append(@, d.entry)]
         IN  IF d.kind \in {"notready", "raise"}
             THEN [next EXCEPT !.status = d.kind]
             ELSE Loop(channels, idx + 1, next, input_sigs, dpos, dfields, flt)

\* lines 113-117: the caches of a call start empty; out are the views of the
\* JS global `output`.
StartOfCall(out) ==
    [ status |-> "run", common_ref |-> {}, hp_coeffs |-> {}, lp_coeffs |-> {},
      notch_coeffs |-> {}, out |-> out, log |-> <<>> ]

\* lines 613-629: buf.assign_to(input[idx]) for each attached buffer, until
\* one raises (no buffers attached, no such input, lengths differ); the
\* exception is swallowed and the inputs assigned so far stay.
RECURSIVE Refreshed(_, _, _, _)
Refreshed(inp, bufs, rawbufs, idx) ==
    IF idx > Len(bufs) \/ idx > Len(inp) THEN inp
    ELSE IF Len(rawbufs[bufs[idx]]) # Len(inp[idx]) THEN inp
    ELSE Refreshed([inp EXCEPT ![idx] = rawbufs[bufs[idx]]], bufs, rawbufs, idx + 1)

\* biosignal_update_input, were it to leave the snapshot as it is.
biosignal_update_input_Stale(inp, bufs, rawbufs) == inp

biosignal_update_input(inp, bufs, rawbufs) ==
    IF IsNone(inp) \/ IsNone(bufs) THEN inp
    ELSE Some(Refreshed(Val(inp), Val(bufs), rawbufs, 1))

\* Whether the refresh ran to its end and returned True.
UpdateInputOK(inp, bufs, rawbufs) ==
    /\ ~IsNone(inp)
    /\ ~IsNone(bufs)
    /\ Len(Val(bufs)) <= Len(Val(inp))
    /\ \A i \in DOMAIN Val(bufs) : Len(rawbufs[Val(bufs)[i]]) = Len(Val(inp)[i])

-----------------------------------------------------------------------------
(* The state after the module is loaded, and the operations.               *)

NoRet == [op |-> "none"]

\* A returned dict { 'success': ..., 'error': ... }.
Result(op, success, error) ==
    [op |-> op, kind |-> "value", success |-> success, error |-> error]

DefaultFields == [sampling_rate |-> 0, updated_start |-> 1, updated_end |-> 2]

DefaultFilters ==
    [ highpass |-> NoneEntry, lowpass |-> NoneEntry, notch |-> NoneEntry,
      N_pass |-> NumEntry(N_pass), N_stop |-> NumEntry(N_stop), padding |-> NumEntry(0) ]

\* lines 9-30
ModuleLoaded ==
    /\ available_montages = {}
    /\ heap = <<>>
    /\ buffers = None
    /\ data_fields = DefaultFields
    /\ data_pos = DefaultDataPos
    /\ filters = DefaultFilters
    /\ input = None
    /\ montage = None
    /\ output = None
    /\ ret = NoRet

\* The host has allocated its raw buffers; the producer has written nothing.
Init ==
    /\ ModuleLoaded
    /\ raw = [b \in BufIds |-> EmptyRaw(b, MaxLen)]
    /\ prod = [b \in BufIds |-> [lo |-> 0, hi |-> 0]]

program == <<available_montages, buffers, data_fields, data_pos, filters, input,
             montage, output, heap>>

\* Where the producer starts to fill raw buffer b.
LoadStart(b) == IF b = 0 THEN 0 ELSE RawLen(raw[b]) - 1

\* The range the producer has written after its next chunk: the first chunk
\* starts at LoadStart, later ones extend the range upwards, then downwards.
NextChunk(b) ==
    LET p == prod[b]
        n == RawLen(raw[b])
    IN  IF p.lo = p.hi THEN [lo |-> LoadStart(b), hi |-> Min(LoadStart(b) + ChunkLen, n)]
        ELSE IF p.hi < n THEN [p EXCEPT !.hi = Min(p.hi + ChunkLen, n)]
        ELSE [p EXCEPT !.lo = Max(p.lo - ChunkLen, 0)]

RECURSIVE WriteRange(_, _, _, _)
WriteRange(buf, b, lo, hi) ==
    IF lo >= hi THEN buf ELSE WriteRange(WriteSample(buf, b, lo), b, lo + 1, hi)

\* The chunks the producer has written into raw buffer b.
Chunks(b) ==
    IF prod[b].lo = prod[b].hi THEN 0
    ELSE (prod[b].hi - prod[b].lo + ChunkLen - 1) \div ChunkLen

\* The producer is one thread: it fills the buffers in turn, a chunk each.
Turn(b) ==
    /\ \A c \in BufIds : Published(raw[c], prod[c])
    /\ \A c \in BufIds : Chunks(b) <= Chunks(c)
    /\ \A c \in BufIds : c < b => Chunks(b) < Chunks(c) \/ NextChunk(c) = prod[c]

\* The producer writes its next chunk of samples into raw buffer b.
ProducerWrite(b) ==
    /\ ret = NoRet
    /\ Turn(b)
    /\ NextChunk(b) # prod[b]
    /\ prod' = [prod EXCEPT ![b] = NextChunk(b)]
    /\ raw' = [raw EXCEPT ![b] = WriteRange(@, b, NextChunk(b).lo, NextChunk(b).hi)]
    /\ UNCHANGED <<program, ret>>

\* The producer moves the watermarks of raw buffer b over what it has written.
ProducerAdvance(b) ==
    /\ ret = NoRet
    /\ ~Published(raw[b], prod[b])
    /\ raw' = [raw EXCEPT ![b] = Publish(@, prod[b].lo, prod[b].hi)]
    /\ UNCHANGED <<program, prod, ret>>

\* lines 366-378: biosignal_set_buffers with the JS global `buffers` = bufs,
\* a list of raw buffers.
biosignal_set_buffers(bufs) ==
    /\ ret = NoRet
    /\ buffers' = Some(bufs)
    /\ input' = Some([i \in DOMAIN bufs |-> raw[bufs[i]]])
    /\ ret' = Result("set_buffers", TRUE, "")
    /\ UNCHANGED <<available_montages, heap, data_fields, data_pos, filters, montage, output,
                   raw, prod>>

\* biosignal_calculate_signals, were it to deactivate the montage.
CalculateFrame_DropsMontage ==
    /\ montage' = None
    /\ UNCHANGED <<available_montages, heap, buffers, data_fields, data_pos, filters,
                   output, raw, prod>>

\* lines 103-252: what the function never assigns: the registry and the
\* lists in it, the active montage, the attached buffers and outputs, the
\* header layout and the default filters; the raw buffers are the host's.
CalculateFrame ==
    UNCHANGED <<available_montages, heap, buffers, data_fields, data_pos, filters, montage,
                output, raw, prod>>

\* lines 103-252: biosignal_calculate_signals with the JS globals
\* `channels` and `output` (views of the given capacities, zeroed).
biosignal_calculate_signals(channels, out) ==
    /\ ret = NoRet
    /\ IF IsNone(input) \/ Len(Val(input)) = 0
       THEN /\ ret' = Result("calculate_signals", FALSE, "input has not been set")
                        @@ [channels |-> channels, out |-> out, log |-> <<>>,
                            refreshed |-> FALSE]
            /\ UNCHANGED input
       ELSE LET inp == biosignal_update_input(input, buffers, raw)
                run == Loop(channels, 0, StartOfCall(out), Val(inp), data_pos,
                            data_fields, filters)
                extra == [channels |-> channels, out |-> run.out, log |-> run.log,
                          refreshed |-> UpdateInputOK(input, buffers, raw)]
            IN  /\ input' = inp
                /\ ret' = CASE run.status = "done" ->
                                 Result("calculate_signals", TRUE, "") @@ extra
                            [] run.status = "notready" ->
                                 Result("calculate_signals", FALSE, "not loaded yet") @@ extra
                            [] OTHER ->
                                 [op |-> "calculate_signals", kind |-> "raise"] @@ extra
    /\ CalculateFrame

\* lines 403-412 (413-422, 423-432): one kind of biosignal_set_default_filters.
\* params may lack the kind; its value is None or a dict that may lack 'Wn'
\* and 'N'.  The step fails on a dict without 'Wn'.
DefaultKindOK(params, kind) ==
    (kind \in DOMAIN params /\ ~IsNone(params[kind])) => "Wn" \in DOMAIN Val(params[kind])

SetDefaultKind(flt, params, kind) ==
    IF kind \notin DOMAIN params THEN flt
    ELSE IF IsNone(params[kind]) THEN [flt EXCEPT ![kind] = NoneEntry]
    ELSE [flt EXCEPT ![kind] =
             FltEntry(Val(params[kind]).Wn,
                      IF "N" \in DOMAIN Val(params[kind]) THEN Val(params[kind]).N ELSE None)]

\* lines 400-435: the kinds in the order highpass, lowpass, notch; the
\* first dict without 'Wn' ends the call, the kinds before it stay set.
RECURSIVE SetDefaults(_, _, _)
SetDefaults(flt, params, kinds) ==
    IF kinds = <<>> THEN [ok |-> TRUE, flt |-> flt]
    ELSE IF ~DefaultKindOK(params, Head(kinds)) THEN [ok |-> FALSE, flt |-> flt]
    ELSE SetDefaults(SetDefaultKind(flt, params, Head(kinds)), params, Tail(kinds))

biosignal_set_default_filters(params) ==
    /\ ret = NoRet
    /\ filters' = SetDefaults(filters, params, FilterKinds).flt
    /\ ret' = Result("set_default_filters", SetDefaults(filters, params, FilterKinds).ok,
                     IF SetDefaults(filters, params, FilterKinds).ok THEN ""
                     ELSE "filter is missing parameter 'Wn'")
                @@ [params |-> params]
    /\ UNCHANGED <<available_montages, heap, buffers, data_fields, data_pos, input, montage,
                   output, raw, prod>>

\* lines 458-469: biosignal_set_filter with the JS globals btype, Wn and N.
biosignal_set_filter(btype, Wn, N) ==
    /\ ret = NoRet
    /\ IF btype \notin DOMAIN filters
       THEN /\ ret' = Result("set_filter", FALSE, "unknown filter type") @@ [btype |-> btype]
            /\ UNCHANGED filters
       ELSE /\ filters' = [filters EXCEPT ![btype] =
                              FltEntry(Wn, IF IsNone(N) \/ Val(N) = 0 THEN None ELSE N)]
            /\ ret' = Result("set_filter", TRUE, "") @@ [btype |-> btype]
    /\ UNCHANGED <<available_montages, heap, buffers, data_fields, data_pos, input, montage,
                   output, raw, prod>>

\* biosignal['available_montages'] is a set of [name, ref] entries, at most
\* one per name; ref is the position in `heap` of the channel list the name
\* is bound to (a Python reference).
Registered(reg, name) == \E e \in reg : e.name = name
Lookup(reg, name) == (CHOOSE e \in reg : e.name = name).ref
Bind(reg, name, ref) == { e \in reg : e.name # name } \cup { [name |-> name, ref |-> ref] }

\* lines 62-68: biosignal_add_montage with the JS globals name and channels:
\* a new list is built and the name is bound to it.
biosignal_add_montage(name, channels) ==
    /\ ret = NoRet
    /\ Len(heap) < MaxObjs
    /\ heap' = Append(heap, channels)
    /\ available_montages' = Bind(available_montages, name, Len(heap) + 1)
    /\ ret' = Result("add_montage", TRUE, "") @@ [name |-> name]
    /\ UNCHANGED <<buffers, data_fields, data_pos, filters, input, montage, output, raw, prod>>

\* biosignal_set_montage, were an unknown name to deactivate the montage.
biosignal_set_montage_Clearing(name) ==
    /\ ret = NoRet
    /\ IF ~Registered(available_montages, name)
       THEN /\ ret' = Result("set_montage", FALSE, "cannot be found") @@ [name |-> name]
            /\ montage' = None
       ELSE /\ montage' = Some(Lookup(available_montages, name))
            /\ ret' = Result("set_montage", TRUE, "") @@ [name |-> name]
    /\ UNCHANGED <<available_montages, heap, buffers, data_fields, data_pos, filters, input,
                   output, raw, prod>>

\* lines 506-514: biosignal_set_montage with the JS global name.
biosignal_set_montage(name) ==
    /\ ret = NoRet
    /\ IF ~Registered(available_montages, name)
       THEN /\ ret' = Result("set_montage", FALSE, "cannot be found") @@ [name |-> name]
            /\ UNCHANGED montage
       ELSE /\ montage' = Some(Lookup(available_montages, name))
            /\ ret' = Result("set_montage", TRUE, "") @@ [name |-> name]
    /\ UNCHANGED <<available_montages, heap, buffers, data_fields, data_pos, filters, input,
                   output, raw, prod>>

\* lines 543-545: the three assignments on one channel of the montage, in
\* the order highpass, lowpass, notch; `done` is false from the first that
\* raises (chan has no 'filters', it is None, or the kind is not in f).
RECURSIVE AssignKinds(_, _, _)
AssignKinds(chan, f, kinds) ==
    IF kinds = <<>> THEN [done |-> TRUE, chan |-> chan]
    ELSE IF \/ "filters" \notin DOMAIN chan
            \/ IsNone(chan.filters)
            \/ Head(kinds) \notin DOMAIN f
    THEN [done |-> FALSE, chan |-> chan]
    ELSE AssignKinds([chan EXCEPT !.filters =
                         Some((Head(kinds) :> f[Head(kinds)]) @@ Val(chan.filters))],
                     f, Tail(kinds))

\* lines 542-545: the loop over the channels of the montage from channel idx
\* (a sequence index) on; flt[idx] raises past the end of flt.
RECURSIVE AssignFilters(_, _, _)
AssignFilters(mtg, flt, idx) ==
    IF idx > Len(mtg) THEN [done |-> TRUE, mtg |-> mtg]
    ELSE IF idx > Len(flt) THEN [done |-> FALSE, mtg |-> mtg]
    ELSE LET a == AssignKinds(mtg[idx], flt[idx], FilterKinds)
         IN  IF a.done THEN AssignFilters([mtg EXCEPT ![idx] = a.chan], flt, idx + 1)
             ELSE [done |-> FALSE, mtg |-> [mtg EXCEPT ![idx] = a.chan]]

\* lines 533-547: biosignal_set_montage_filters with the JS globals montage
\* (a name) and filters; the channel dicts of the list are changed in place.
biosignal_set_montage_filters(name, flt) ==
    /\ ret = NoRet
    /\ IF ~Registered(available_montages, name)
       THEN /\ ret' = Result("set_montage_filters", FALSE, "cannot be found")
                        @@ [name |-> name]
            /\ UNCHANGED heap
       ELSE LET ref == Lookup(available_montages, name)
                a == AssignFilters(heap[ref], flt, 1)
            IN  /\ heap' = [heap EXCEPT ![ref] = a.mtg]
                /\ ret' = IF a.done
                          THEN Result("set_montage_filters", TRUE, "") @@ [name |-> name]
                          ELSE [op |-> "set_montage_filters", kind |-> "raise", name |-> name]
    /\ UNCHANGED <<available_montages, buffers, data_fields, data_pos, filters, input,
                   montage, output, raw, prod>>

\* lines 599-611: biosignal_set_output with the JS global buffers, None when
\* the host has not defined it (the import raises inside the try block).
biosignal_set_output(bufs) ==
    /\ ret = NoRet
    /\ IF IsNone(bufs)
       THEN /\ ret' = Result("set_output", FALSE, "Failed to set output buffer:")
            /\ UNCHANGED output
       ELSE /\ output' = Some(Val(bufs))
            /\ ret' = Result("set_output", TRUE, "")
    /\ UNCHANGED <<available_montages, heap, buffers, data_fields, data_pos, filters, input,
                   montage, raw, prod>>

\* lines 487-489: biosignal_set_filter_padding with the JS global padding.
biosignal_set_filter_padding(padding) ==
    /\ ret = NoRet
    /\ filters' = [filters EXCEPT !.padding = NumEntry(padding)]
    /\ ret' = Result("set_filter_padding", TRUE, "")
    /\ UNCHANGED <<available_montages, heap, buffers, data_fields, data_pos, input, montage,
                   output, raw, prod>>

\* lines 286-310: the kinds of biosignal_filter_signal in the order
\* highpass, lowpass, notch on a signal of n samples.  fl is the dict in
\* use; every kind that is not None is designed from fl['highpass'] and
\* applied; `chain` is the filters applied so far.  The first exception
\* (a missing key, a None that is subscripted, a design that butter
\* rejects, a signal too short for sosfiltfilt) ends the loop.
RECURSIVE FilterSignalKinds(_, _, _, _, _, _)
FilterSignalKinds(flt, fl, n, fs, kinds, chain) ==
    IF kinds = <<>> THEN [ok |-> TRUE, chain |-> chain]
    ELSE IF Head(kinds) \notin DOMAIN fl THEN [ok |-> FALSE, chain |-> chain]
    ELSE IF fl[Head(kinds)].tag = "none"
    THEN FilterSignalKinds(flt, fl, n, fs, Tail(kinds), chain)
    ELSE IF "highpass" \notin DOMAIN fl \/ fl.highpass.tag # "flt"
    THEN [ok |-> FALSE, chain |-> chain]
    ELSE IF ~CoefficientsOK(flt, Head(kinds), fl.highpass.Wn, fs, fl.highpass.N)
    THEN [ok |-> FALSE, chain |-> chain]
    ELSE IF ~SosFiltFiltOK(biosignal_get_filter_coefficients(
                               flt, Head(kinds), fl.highpass.Wn, fs, fl.highpass.N), n)
    THEN [ok |-> FALSE, chain |-> chain]
    ELSE FilterSignalKinds(flt, fl, n, fs, Tail(kinds),
                           Append(chain, biosignal_get_filter_coefficients(
                                             flt, Head(kinds), fl.highpass.Wn, fs,
                                             fl.highpass.N)))

\* lines 280-320: biosignal_filter_signal on a signal of n samples sampled
\* at fs, with the argument `filters` (None selects biosignal['filters']).
\* The result carries the dict in use and the filters applied.
biosignal_filter_signal(n, fs, override) ==
    /\ ret = NoRet
    /\ LET fl == IF IsNone(override) THEN filters ELSE Val(override)
           run == FilterSignalKinds(filters, fl, n, fs, FilterKinds, <<>>)
       IN  ret' = Result("filter_signal", run.ok, IF run.ok THEN "" ELSE "exception")
                    @@ [n |-> n, fs |-> fs, used |-> fl, chain |-> run.chain]
    /\ UNCHANGED <<available_montages, heap, buffers, data_fields, data_pos, filters, input,
                   montage, output, raw, prod>>

\* Control is back with the host, which has taken the result.
Return ==
    /\ ret # NoRet
    /\ ret' = NoRet
    /\ UNCHANGED <<program, raw, prod>>

-----------------------------------------------------------------------------
(* The requests of the host.                                               *)

\* A channel definition as the host marshals it (lines 79-95).
Channel(active, reference, start, end) ==
    [ active |-> active, reference |-> reference, common_ref |-> FALSE, type |-> "eeg",
      start |-> start, end |-> end, data_gaps |-> <<>>, filters |-> None,
      filter_len |-> 0 ]

\* An empty channel: a definition without `active` (line 120).
EmptyChannel == [type |-> "eeg"]

\* Output views of n zeroed arrays of capacity cap.
ZeroView(cap) == [v |-> Zeros(cap), f |-> <<>>]
Views(n, cap) == [i \in 1 .. n |-> ZeroView(cap)]

\* The lists of 1 to n elements of S.
Lists(S, n) == UNION { [1 .. k -> S] : k \in 1 .. n }

AllBuffers == [i \in 1 .. NumBufs |-> i - 1]

\* Requested ranges: before the first sample, inside, past the last sample.
Ranges == { <<s, e>> : s \in {-1, 0, 1}, e \in {1, MaxLen + 1} }

\* The channels of one range: the first and the last buffer as they are, the
\* first buffer referred to the last, and the empty channel.
RangeChannels(r) ==
    { Channel(0, <<>>, r[1], r[2]), Channel(NumBufs - 1, <<>>, r[1], r[2]),
      Channel(0, <<NumBufs - 1>>, r[1], r[2]), EmptyChannel }

Requests == UNION { Lists(RangeChannels(r), MaxChans) : r \in Ranges }

OutputViews == { Views(n, cap) : n \in {1, MaxChans}, cap \in {1, MaxCap} }

Next ==
    \/ \E b \in BufIds : ProducerWrite(b)
    \/ \E b \in BufIds : ProducerAdvance(b)
    \/ biosignal_set_buffers(AllBuffers)
    \/ \E channels \in Requests, out \in OutputViews :
          biosignal_calculate_signals(channels, out)
    \/ Return

Spec == Init /\ [][Next]_vars

-----------------------------------------------------------------------------
(* Derivations on loaded buffers: the producer has filled every raw buffer *)
(* and the host has attached them with biosignal_set_buffers.              *)

FullRaw(b, n) == Publish(WriteRange(EmptyRaw(b, n), b, 0, n), 0, n)

Loaded(n) ==
    /\ raw = [b \in BufIds |-> FullRaw(b, n)]
    /\ prod = [b \in BufIds |-> [lo |-> 0, hi |-> n]]

Attached ==
    /\ available_montages = {}
    /\ heap = <<>>
    /\ buffers = Some(AllBuffers)
    /\ data_fields = DefaultFields
    /\ data_pos = DefaultDataPos
    /\ filters = DefaultFilters
    /\ input = Some([i \in DOMAIN AllBuffers |-> raw[AllBuffers[i]]])
    /\ montage = None
    /\ output = None
    /\ ret = NoRet

InitLoaded == Loaded(MaxLen) /\ Attached

(* References: channels of two types, with and without the common          *)
(* reference, each with its own range.                                     *)

RefRanges == { <<0, 1>>, <<0, MaxLen>>, <<-1, MaxLen - 1>> }
RefTypes == {"eeg", "emg"}
RefLists == { <<>>, <<NumBufs - 1>>, AllBuffers }

RefChannels ==
    { [Channel(0, ref, r[1], r[2]) EXCEPT !.common_ref = c, !.type = t] :
        ref \in RefLists, r \in RefRanges, c \in BOOLEAN, t \in RefTypes }

NextRef ==
    \/ \E channels \in Lists(RefChannels, MaxChans) :
          biosignal_calculate_signals(channels, Views(Len(channels), 1))
    \/ Return

SpecRef == InitLoaded /\ [][NextRef]_vars

(* Gaps: one channel with a list of up to MaxGaps gaps, each a pair of     *)
(* positions at the two ends of the padded window (in any order,           *)
(* overlapping or not).                                                    *)

MaxGaps == 2

GapRanges == { <<0, MaxLen - 2>>, <<-1, MaxLen - 1>>, <<1, MaxLen + 1>> }
GapEdges(r) == {0, 1, r[2] - r[1] - 1, r[2] - r[1]}
Gaps(r) == { <<g0, g1>> : g0, g1 \in GapEdges(r) }
GapLists(r) == {<<>>} \cup Lists(Gaps(r), MaxGaps)

GapRangeChannels(r) ==
    { [Channel(0, ref, r[1], r[2]) EXCEPT !.data_gaps = gaps] :
        ref \in {<<>>, <<NumBufs - 1>>}, gaps \in GapLists(r) }

GapChannels == UNION { GapRangeChannels(r) : r \in GapRanges }

NextGap ==
    \/ \E chan \in GapChannels : biosignal_calculate_signals(<<chan>>, Views(1, MaxCap))
    \/ Return

SpecGap == InitLoaded /\ [][NextGap]_vars

(* Filters: buffers long enough for sosfiltfilt with the default orders,  *)
(* channels with per-channel critical frequencies, and the process         *)
(* defaults set through biosignal_set_filter and                           *)
(* biosignal_set_default_filters.                                          *)

FiltLen == 3 * (2 * N_stop + 1) + 3

InitFilt == Loaded(FiltLen) /\ Attached

\* The `filters` of a channel: None, a dict of the three kinds (each None, 0
\* or a critical frequency), or a dict without its lowpass and notch keys.
ChannelFilters ==
    { None,
      Some([highpass |-> Some(2)]),
      Some([highpass |-> None, lowpass |-> None, notch |-> None]),
      Some([highpass |-> Some(2), lowpass |-> None, notch |-> Some(0)]),
      Some([highpass |-> Some(0), lowpass |-> Some(2), notch |-> Some(2)]),
      Some([highpass |-> Some(2), lowpass |-> Some(5), notch |-> None]) }

FiltChannels(n) ==
    { [Channel(a, <<>>, 0, n) EXCEPT !.filters = f] : a \in BufIds, f \in ChannelFilters }

FiltRequests == Lists(FiltChannels(FiltLen), MaxChans) \cup Lists(FiltChannels(FiltLen \div 2), 1)

DefaultParams ==
    { [highpass |-> None],
      [highpass |-> Some([Wn |-> 3]), lowpass |-> Some([N |-> Some(4)])],
      [lowpass |-> Some([Wn |-> 3, N |-> Some(4)])] }

NextFilt ==
    \/ \E btype \in {"highpass", "bandpass"} : biosignal_set_filter(btype, 3, None)
    \/ \E params \in DefaultParams : biosignal_set_default_filters(params)
    \/ \E channels \in FiltRequests :
          biosignal_calculate_signals(channels, Views(Len(channels), MaxCap))
    \/ Return

SpecFilt == InitFilt /\ [][NextFilt]_vars

(* Montages: the registry, the active montage and the filters of the      *)
(* channels of a registered montage.                                       *)

MontageNames == {"a", "b"}

\* The `filters` of a montage channel as the host registers it.
NoFilters == Some([highpass |-> None, lowpass |-> None, notch |-> None])

MontageLists ==
    { <<[Channel(0, <<>>, 0, MaxLen) EXCEPT !.filters = NoFilters]>>,
      <<[Channel(0, <<>>, 0, MaxLen) EXCEPT !.filters = NoFilters],
        Channel(NumBufs - 1, <<>>, 0, MaxLen)>> }

\* The `filters` argument of set-montage-filters: one dict per channel.
MontageFilters ==
    { <<[highpass |-> Some(2), lowpass |-> None, notch |-> None]>>,
      <<[highpass |-> Some(0), lowpass |-> Some(2), notch |-> None],
        [highpass |-> Some(2), lowpass |-> None, notch |-> None]>> }

NextMontage ==
    \/ \E name \in MontageNames, channels \in MontageLists :
          biosignal_add_montage(name, channels)
    \/ \E name \in MontageNames : biosignal_set_montage(name)
    \/ \E name \in MontageNames, flt \in MontageFilters :
          biosignal_set_montage_filters(name, flt)
    \/ Return

SpecMontage == InitLoaded /\ [][NextMontage]_vars

(* A session: montages registered and activated, outputs attached, and     *)
(* derivation calls with the channel and output lists the host hands over. *)

AttachedOutputs == { None, Some(Views(1, 1)), Some(Views(MaxChans, MaxCap)) }

SessionRequests == MontageLists \cup { <<Channel(NumBufs - 1, <<>>, 0, 1)>> }

SessionOutputs == { Views(1, 1), Views(MaxChans, MaxCap) }

NextSession ==
    \/ \E name \in MontageNames, channels \in MontageLists :
          biosignal_add_montage(name, channels)
    \/ \E name \in MontageNames : biosignal_set_montage(name)
    \/ \E name \in MontageNames, flt \in MontageFilters :
          biosignal_set_montage_filters(name, flt)
    \/ \E bufs \in AttachedOutputs : biosignal_set_output(bufs)
    \/ \E channels \in SessionRequests, out \in SessionOutputs :
          biosignal_calculate_signals(channels, out)
    \/ Return

SpecSession == InitLoaded /\ [][NextSession]_vars

(* Raw buffers of different lengths: the first holds MaxLen samples, the   *)
(* others one sample each; all are loaded and attached.                    *)

UnevenLen(b) == IF b = 0 THEN MaxLen ELSE 1

InitUneven ==
    /\ raw = [b \in BufIds |-> FullRaw(b, UnevenLen(b))]
    /\ prod = [b \in BufIds |-> [lo |-> 0, hi |-> UnevenLen(b)]]
    /\ Attached

UnevenRanges == { <<0, 1>>, <<0, MaxLen>>, <<-1, 2>> }

UnevenChannels ==
    { Channel(0, ref, r[1], r[2]) :
        ref \in { <<>>, <<0>>, <<NumBufs - 1>>, AllBuffers }, r \in UnevenRanges }

NextUneven ==
    \/ \E channels \in Lists(UnevenChannels, MaxChans) :
          biosignal_calculate_signals(channels, Views(Len(channels), MaxCap))
    \/ Return

SpecUneven == InitUneven /\ [][NextUneven]_vars

(* Ranges: requests that overlap the loaded buffer, reach over one of its  *)
(* ends, or lie wholly before or after it.                                 *)

RangeStarts == { -MaxLen, -1, 0, 1, MaxLen + 1 }
RangeEnds == { 1 - MaxLen, 0, 1, MaxLen, MaxLen + 2 }

WindowChannels == { Channel(0, <<>>, s, e) : s \in RangeStarts, e \in RangeEnds }

NextWindow ==
    \/ \E channels \in Lists(WindowChannels, MaxChans) :
          biosignal_calculate_signals(channels, Views(Len(channels), MaxCap))
    \/ Return

SpecWindow == InitLoaded /\ [][NextWindow]_vars

(* Derivation calls in a configured session: the producer loads the raw    *)
(* buffers while a montage is registered and activated, a default filter   *)
(* is set and calls are made, some of them on missing data or on a buffer  *)
(* that does not exist.                                                    *)

FrameRequests ==
    { <<Channel(0, <<>>, 0, MaxLen)>>,
      <<Channel(0, <<>>, 0, 1), Channel(NumBufs - 1, <<0>>, 0, MaxLen)>>,
      <<Channel(NumBufs, <<>>, 0, 1)>> }

NextFrame ==
    \/ \E b \in BufIds : ProducerWrite(b)
    \/ \E b \in BufIds : ProducerAdvance(b)
    \/ biosignal_set_buffers(AllBuffers)
    \/ \E channels \in MontageLists : biosignal_add_montage("a", channels)
    \/ biosignal_set_montage("a")
    \/ biosignal_set_filter("highpass", 3, None)
    \/ \E channels \in FrameRequests :
          biosignal_calculate_signals(channels, Views(Len(channels), 1))
    \/ Return

SpecFrame == Init /\ [][NextFrame]_vars

(* Steps: channels on the long buffers with and without filters of each    *)
(* kind, a gap, and filter padding to trim; no process default is set.     *)

StepFilters ==
    { None,
      Some([highpass |-> Some(2), lowpass |-> None, notch |-> Some(0)]),
      Some([highpass |-> Some(0), lowpass |-> Some(2), notch |-> Some(2)]),
      Some([highpass |-> Some(2), lowpass |-> Some(2), notch |-> Some(2)]),
      Some([highpass |-> Some(2), lowpass |-> Some(5), notch |-> None]) }

\* A channel over the whole buffer, with filter padding of one sample at
\* each end when padded.
StepChannel(f, padded, gaps) ==
    [Channel(0, <<>>, 0, FiltLen) EXCEPT !.filters = f, !.data_gaps = gaps,
                                       !.filter_len = IF padded THEN 2 ELSE 0]
        @@ [trim_start |-> 1, trim_end |-> FiltLen - 1]

StepChannels ==
    { StepChannel(f, padded, <<>>) : f \in StepFilters, padded \in BOOLEAN }
        \cup { StepChannel(None, TRUE, <<<<1, 2>>>>) }

NextSteps ==
    \/ \E channels \in Lists(StepChannels, MaxChans) :
          biosignal_calculate_signals(channels, Views(Len(channels), MaxCap))
    \/ Return

SpecSteps == InitFilt /\ [][NextSteps]_vars

(* Configuration of the default filters: every key of the configuration    *)
(* and a name that is none of them as the type of biosignal_set_filter.    *)

FilterTypes == {"highpass", "lowpass", "notch", "bandpass", "N_pass", "N_stop", "padding"}

NextConf ==
    \/ \E btype \in FilterTypes, N \in {None, Some(4)} : biosignal_set_filter(btype, 3, N)
    \/ \E params \in DefaultParams : biosignal_set_default_filters(params)
    \/ \E padding \in {0, 1} : biosignal_set_filter_padding(padding)
    \/ Return

SpecConf == Init /\ [][NextConf]_vars

(* Filtering one signal with the default filters or with a dict given in   *)
(* the call, the defaults being set and cleared kind by kind.              *)

SignalLens == { FiltLen, 3 * (N_pass + 1) }
SignalRate == 8

\* The `filters` argument: None, or a dict with its own lowpass only.
SignalOverrides ==
    { None,
      Some([highpass |-> NoneEntry, lowpass |-> FltEntry(2, Some(4)), notch |-> NoneEntry]) }

ClearParams == { [k \in {kind} |-> None] : kind \in Range(FilterKinds) }

NextSignal ==
    \/ \E btype \in Range(FilterKinds), Wn \in {2, 3} : biosignal_set_filter(btype, Wn, None)
    \/ \E params \in ClearParams : biosignal_set_default_filters(params)
    \/ \E n \in SignalLens, override \in SignalOverrides :
          biosignal_filter_signal(n, SignalRate, override)
    \/ Return

SpecSignal == Init /\ [][NextSignal]_vars

(* Retrying: the raw buffers are attached before the producer has written  *)
(* anything; the producer loads them to the end while a caller makes the   *)
(* same request again and again.  The producer thread is not held up by   *)
(* the calls (strong fairness: a pending call disables it only until the   *)
(* host has taken the result), the host takes every result, and every      *)
(* request is made again and again.                                        *)

InitRetry ==
    /\ raw = [b \in BufIds |-> EmptyRaw(b, MaxLen)]
    /\ prod = [b \in BufIds |-> [lo |-> 0, hi |-> 0]]
    /\ Attached

RetryRequests ==
    { <<Channel(0, <<>>, 0, MaxLen)>>,
      <<Channel(NumBufs - 1, <<>>, MaxLen - MaxCap, MaxLen)>>,
      <<Channel(0, <<NumBufs - 1>>, -1, MaxCap)>>,
      <<Channel(NumBufs - 1, <<0>>, -1, MaxLen - 1), Channel(0, <<>>, 1, MaxLen + 1)>> }

\* The caller's request, with output views of either capacity.
Retry(channels) ==
    \E cap \in {1, MaxCap} : biosignal_calculate_signals(channels, Views(Len(channels), cap))

\* The producer thread.
Producer == \E b \in BufIds : ProducerWrite(b) \/ ProducerAdvance(b)

NextRetry ==
    \/ Producer
    \/ \E channels \in RetryRequests : Retry(channels)
    \/ Return

SpecRetry ==
    /\ InitRetry
    /\ [][NextRetry]_vars
    /\ SF_vars(Producer)
    /\ WF_vars(Return)
    /\ \A channels \in RetryRequests : []<>(ret.op = "calculate_signals" /\ ret.channels = channels)

-----------------------------------------------------------------------------
(* What a returned derivation call shows.                                  *)

Calculated == ret.op = "calculate_signals"
Succeeded == ret.kind = "value" /\ ret.success
Failed == ret.kind = "value" /\ ~ret.success

\* The channels of the call that the loop reached.
Reached == DOMAIN ret.log
\* The channels whose output view was assigned in the call.
Assigned == { i \in Reached : ret.log[i].outcome = "written" }
\* The channels whose freshness check ran.
Checked == { i \in Reached : "freshness" \in Range(ret.log[i].steps) }

\* The snapshot of channel i's active buffer that the call saw, its
\* watermarks and its logical length.
ActiveOf(i) == At(Val(input), ret.channels[i].active)
UpdatedStart(buf) == At(buf, data_fields.updated_start)
UpdatedEnd(buf) == At(buf, data_fields.updated_end)
LogicalLen(buf) == Len(buf) - data_pos

-----------------------------------------------------------------------------
\* C1: whenever the freshness check of some channel of a call fails, the
\* call returns success=false and no output view has been assigned in it,
\* the views of the channels before the not-ready one included.
C1_NotReadyWritesNothing ==
    Calculated =>
        \A i \in Reached :
            ret.log[i].outcome = "notready" => Failed /\ Assigned = {}

-----------------------------------------------------------------------------
\* C2: a channel whose freshness check runs is reported NotReady whenever
\* updated_start is the sentinel, or updated_start > start, or updated_end
\* is below the logical length and below end (the watermarks and the range
\* are sample indices).
C2_NotReadyAsStated ==
    Calculated =>
        \A i \in Checked :
            LET us == UpdatedStart(ActiveOf(i))
                ue == UpdatedEnd(ActiveOf(i))
                ch == ret.channels[i]
            IN  (\/ us = empty_field
                 \/ us > ch.start
                 \/ (ue < LogicalLen(ActiveOf(i)) /\ ue < ch.end))
                => ret.log[i].outcome = "notready" /\ Failed

-----------------------------------------------------------------------------
\* C3: a successful call uses no sample of a raw buffer, active or
\* reference, outside that buffer's [updated_start, updated_end) as the
\* call saw it.
InWatermarks(buf, pos) ==
    /\ UpdatedStart(buf) # empty_field
    /\ UpdatedStart(buf) <= pos - data_pos
    /\ pos - data_pos < UpdatedEnd(buf)

C3_ReadsInsideWatermarks ==
    (Calculated /\ Succeeded) =>
        \A i \in Assigned :
            \A r \in ret.log[i].reads : InWatermarks(Val(input)[r[1] + 1], r[2])

-----------------------------------------------------------------------------
\* C4: the samples written to an output view never exceed its capacity, and
\* a processed signal longer than the capacity is written without its last
\* samples: the view holds the first `capacity` samples of it.
C4_TruncatesAtEnd ==
    Calculated =>
        \A i \in Assigned :
            LET e == ret.log[i]
                view == ret.out[e.idx + 1]
            IN  /\ Len(e.written) <= e.cap
                /\ view.v = e.written
                /\ Len(view.v) = Len(ZeroView(e.cap).v)
                /\ Len(e.trimmed) > e.cap => e.written = SubSeq(e.trimmed, 1, e.cap)

\* C4 witness: a signal longer than the view was written, and the samples
\* at its two ends differ.
C4_Witness ==
    /\ Calculated
    /\ \E i \in Assigned :
          /\ Len(ret.log[i].trimmed) > ret.log[i].cap
          /\ ret.log[i].trimmed[1] # ret.log[i].trimmed[Len(ret.log[i].trimmed)]
          /\ ret.log[i].trimmed[1] # 0

-----------------------------------------------------------------------------
\* C5: every boundary operation hands the host a result {success, error?}:
\* no call ends in an uncaught exception or without a result.
C5_AlwaysAResult == ret # NoRet => ret.kind = "value"

-----------------------------------------------------------------------------
\* C6: a call whose output list and channel list differ in length fails
\* with an error before any channel is processed: nothing is written.
C6_SizeMismatchFails ==
    (Calculated /\ Len(ret.out) # Len(ret.channels)) =>
        Failed /\ Reached = {}

-----------------------------------------------------------------------------
\* The channels whose filters were chosen and applied.
Filtered == { i \in Reached : "degap" \in Range(ret.log[i].steps) }

\* A filter of the kind is in the chain applied to channel i; one with the
\* critical frequency Wn is.
Applied(i, kind) == \E c \in Range(ret.log[i].chain) : StepName(c) = kind
AppliedWn(i, kind, Wn) ==
    \E c \in Range(ret.log[i].chain) : StepName(c) = kind /\ c.band = FilterBand(kind, Wn)

\* The process default of the kind, when one has been set.
DefaultSet(kind) == filters[kind].tag = "flt"

\* C7: for each kind of each processed channel, a non-zero per-channel
\* critical frequency is applied; a per-channel None applies the process
\* default of the kind when one is set and no filter otherwise; 0 or an
\* absent value applies no filter of the kind.
C7_FiltersAsStated ==
    Calculated =>
        \A i \in Filtered : \A k \in DOMAIN FilterKinds :
            LET kind == FilterKinds[k]
                f == ret.channels[i].filters
            IN  IF IsNone(f) \/ kind \notin DOMAIN Val(f) THEN ~Applied(i, kind)
                ELSE IF IsNone(Val(f)[kind])
                THEN IF DefaultSet(kind) THEN AppliedWn(i, kind, filters[kind].Wn)
                     ELSE ~Applied(i, kind)
                ELSE IF Val(Val(f)[kind]) = 0 THEN ~Applied(i, kind)
                ELSE AppliedWn(i, kind, Val(Val(f)[kind]))

-----------------------------------------------------------------------------
\* The channels before channel i that share its type and have common_ref.
EarlierCommon(i) ==
    { j \in Reached : /\ j < i
                      /\ ret.channels[j].common_ref
                      /\ ret.channels[j].type = ret.channels[i].type }

\* The channels from which a reference was subtracted.
Subtracted == { i \in Reached : "reference" \in Range(ret.log[i].steps) }

\* C8: in one call a common_ref channel whose type has an earlier common_ref
\* channel uses the reference of the first of them, every other channel
\* (the first of each call included) computes the reference from its own
\* list and range, and the reference subtracted is as long as the channel's
\* extracted active signal.
C8_ReferenceAsStated ==
    Calculated =>
        \A i \in Subtracted :
            LET ch == ret.channels[i]
                e == ret.log[i]
                fr == Freshness(ch, ActiveOf(i), data_pos, data_fields)
            IN  /\ IF ch.common_ref /\ EarlierCommon(i) # {}
                   THEN /\ e.from_cache
                        /\ e.sig_ref = ret.log[CHOOSE j \in EarlierCommon(i) :
                                                  \A k \in EarlierCommon(i) : j <= k].sig_ref
                   ELSE /\ ~e.from_cache
                        /\ e.sig_ref = Reference(ch, Val(input), fr, e.sig_act)
                /\ Len(e.sig_ref) = Len(e.sig_act)

-----------------------------------------------------------------------------
\* The key of the design of one kind for channel i.
DesignKey(i, kind) ==
    [btype |-> kind, Wn |-> Val(Val(ret.channels[i].filters)[kind]), fs |-> ret.log[i].sig_fs]

\* C9: in one call biosignal_get_filter_coefficients is invoked at most
\* once per key (kind, critical frequency, sampling rate; the order is fixed
\* during a call), by the first channel with the key, and every channel
\* filters with the coefficients of its own key.
C9_DesignedOncePerKey ==
    Calculated =>
        /\ \A i, j \in Reached :
              \A a \in DOMAIN ret.log[i].designs : \A b \in DOMAIN ret.log[j].designs :
                  ret.log[i].designs[a] = ret.log[j].designs[b] => i = j /\ a = b
        /\ \A i \in Filtered : \A k \in DOMAIN FilterKinds :
              FilterSelected(ret.channels[i], FilterKinds[k]) =>
                  /\ \E j \in Reached :
                        j <= i /\ DesignKey(i, FilterKinds[k]) \in Range(ret.log[j].designs)
                  /\ Applied(i, FilterKinds[k])
                  /\ \A c \in Range(ret.log[i].chain) :
                        StepName(c) = FilterKinds[k] =>
                            c = Butter(FilterOrder(filters, FilterKinds[k], None).num,
                                       FilterBand(FilterKinds[k], DesignKey(i, FilterKinds[k]).Wn),
                                       FilterType(FilterKinds[k]),
                                       ret.log[i].sig_fs)

\* C9 witness: a later channel filters with coefficients that an earlier
\* channel of the call designed, and invokes no design itself.
C9_Witness ==
    /\ Calculated /\ Succeeded
    /\ \E i, j \in Filtered :
          /\ i < j
          /\ ret.log[j].chain # <<>>
          /\ ret.log[j].designs = <<>>
          /\ ret.log[i].designs # <<>>
          /\ Range(ret.log[j].chain) \subseteq Range(ret.log[i].chain)

-----------------------------------------------------------------------------
\* An ordered gap list without overlaps inside a window of n samples.
OrderedGaps(gaps, n) ==
    /\ \A i \in DOMAIN gaps : 0 <= gaps[i][1] /\ gaps[i][1] <= gaps[i][2] /\ gaps[i][2] <= n
    /\ \A i, j \in DOMAIN gaps : i < j => gaps[i][2] <= gaps[j][1]

\* The channels whose gap list is ordered and which were not filtered.
GapRoundTrips ==
    { i \in Filtered : /\ OrderedGaps(ret.channels[i].data_gaps, Len(ret.log[i].window))
                       /\ ret.log[i].chain = <<>> }

\* The window of the single reference buffer of channel i.
ReferenceWindow(i) ==
    Window(At(Val(input), ret.channels[i].reference[1]),
           Freshness(ret.channels[i], ActiveOf(i), data_pos, data_fields))

\* C10: with an ordered gap list and no filter, the signal after the de-gap
\* step is the windowed signal again, sample by sample: the window itself
\* for a channel without reference, the window minus the reference window
\* for a channel with one reference.
C10_GapsRoundTrip ==
    Calculated =>
        \A i \in GapRoundTrips :
            /\ Len(ret.log[i].degapped) = Len(ret.log[i].window)
            /\ ret.channels[i].reference = <<>> => ret.log[i].degapped = ret.log[i].window
            /\ Len(ret.channels[i].reference) = 1 =>
                   ret.log[i].degapped = NpSub(ret.log[i].window, ReferenceWindow(i))

\* C10 witness: two non-empty gaps were inserted into a window of distinct,
\* non-zero samples and removed again.
C10_Witness ==
    /\ Calculated /\ Succeeded
    /\ \E i \in GapRoundTrips :
          /\ Len(ret.channels[i].data_gaps) = MaxGaps
          /\ \A g \in DOMAIN ret.channels[i].data_gaps :
                ret.channels[i].data_gaps[g][1] < ret.channels[i].data_gaps[g][2]
          /\ ret.channels[i].data_gaps[1][1] > 0
          /\ Len(ret.log[i].sig_act) > Len(ret.log[i].window)
          /\ ret.log[i].window[1] # ret.log[i].window[Len(ret.log[i].window)]
          /\ ret.log[i].outcome = "written"

-----------------------------------------------------------------------------
\* C11: the active montage, when one is set, is a channel list that the
\* registry currently holds.  (A list is bound to one name only, the name it
\* was registered and activated with, and the registry and `montage` refer to
\* one and the same list, so changes of its filters show through both.)
C11_ActiveIsRegistered ==
    ~IsNone(montage) => \E e \in available_montages : e.ref = Val(montage)

-----------------------------------------------------------------------------
\* The capacities of a list of views.
Shape(views) == [i \in DOMAIN views |-> Len(views[i].v)]

\* C12: with a montage active and outputs attached, a derivation call derives
\* channels of the active montage only, with the filters the montage holds,
\* and the list of views it writes is the attached one.
C12_DerivesActiveIntoAttached ==
    (Calculated /\ ~IsNone(montage) /\ ~IsNone(output)) =>
        /\ \A i \in DOMAIN ret.channels : ret.channels[i] \in Range(heap[Val(montage)])
        /\ Shape(ret.out) = Shape(Val(output))

-----------------------------------------------------------------------------
\* The window of the range [start, end) of a buffer: the buffer's sample at
\* every index of the range that the buffer holds, zero at the others.
RangeWindow(buf, start, end) ==
    [k \in 1 .. Max(0, end - start) |->
        IF 0 <= start + k - 1 /\ start + k - 1 < LogicalLen(buf)
        THEN buf[data_pos + start + k] ELSE 0]

\* The reference of a channel over its range: zeros for an empty list, the
\* window of the listed buffer for one, the elementwise mean for several.
RangeReference(ch, input_sigs) ==
    LET wins == [j \in DOMAIN ch.reference |->
                    RangeWindow(At(input_sigs, ch.reference[j]), ch.start, ch.end)]
    IN  [k \in 1 .. Max(0, ch.end - ch.start) |->
            IF Len(wins) = 0 THEN 0
            ELSE SumAt([j \in DOMAIN wins |-> <<wins[j][k]>>], 1) \div Len(wins)]

\* The channels without filters, gaps and common reference whose active
\* window was extracted.
PlainExtracted ==
    { i \in Reached : /\ "extract" \in Range(ret.log[i].steps)
                      /\ IsNone(ret.channels[i].filters)
                      /\ ret.channels[i].data_gaps = <<>>
                      /\ ~ret.channels[i].common_ref }

\* C13: for a channel without filters, gaps and common reference the
\* reference is the zero signal, the listed buffer's window or the mean of
\* the listed buffers' windows, it is as long as the active window, and the
\* signal before fitting is the active window minus it at every index.
C13_WindowMinusReference ==
    Calculated =>
        \A i \in PlainExtracted :
            LET e == ret.log[i]
            IN  /\ i \in Subtracted
                /\ Len(e.sig_ref) = Len(e.sig_act)
                /\ e.sig_ref = RangeReference(ret.channels[i], Val(input))
                /\ e.sig = [k \in DOMAIN e.sig_act |-> e.sig_act[k] - e.sig_ref[k]]

-----------------------------------------------------------------------------
\* The channels whose active window was extracted.
Extracted == { i \in Reached : "extract" \in Range(ret.log[i].steps) }

\* C14: the window extracted for the range [start, end) of a ready buffer
\* has end - start samples: zeros at the indices before sample 0 and from
\* the logical length on, and the buffer's sample (index + start) at every
\* other index.
C14_WindowOfRange ==
    Calculated =>
        \A i \in Extracted :
            ret.log[i].window
                = RangeWindow(ActiveOf(i), ret.channels[i].start, ret.channels[i].end)

-----------------------------------------------------------------------------
\* C15: a derivation call made while the raw buffers are not attached, the
\* outputs are not attached or no montage is active returns success=false
\* before it reaches any channel, and assigns no output view.
C15_UnconfiguredFails ==
    (Calculated /\ (IsNone(buffers) \/ IsNone(output) \/ IsNone(montage))) =>
        /\ Failed
        /\ Reached = {}
        /\ Assigned = {}

-----------------------------------------------------------------------------
\* The channels whose processing ended in an exception.
Raised == { i \in Reached : ret.log[i].outcome = "raise" }

\* C16: a channel whose processing fails for another reason than missing
\* data is the only one given up: its view is left as it was, the call
\* still returns a result with the error recorded, and every channel of the
\* list, the ones after it included, is processed.
C16_FailureAbortsOneChannel ==
    Calculated =>
        \A i \in Raised :
            /\ ret.kind = "value"
            /\ Reached = DOMAIN ret.channels
            /\ i \in DOMAIN ret.out => ret.out[i] = ZeroView(Len(ret.out[i].v))

-----------------------------------------------------------------------------
\* C17: biosignal_set_montage with a name the registry does not hold
\* returns success=false with a not-found error and changes neither the
\* active montage nor the registry; with a registered name it returns
\* success=true and the active montage is the list registered under it.
C17_SetMontageAsStated ==
    [][ (ret = NoRet /\ ret'.op = "set_montage") =>
            /\ ret'.kind = "value"
            /\ available_montages' = available_montages
            /\ heap' = heap
            /\ IF \E e \in available_montages : e.name = ret'.name
               THEN /\ ret'.success
                    /\ \E e \in available_montages :
                          e.name = ret'.name /\ montage' = Some(e.ref)
               ELSE /\ ~ret'.success
                    /\ ret'.error = "cannot be found"
                    /\ montage' = montage ]_vars

\* A call with an unknown name has failed while a montage is active.
C17_Witness ==
    /\ ret.op = "set_montage"
    /\ ~ret.success
    /\ ~IsNone(montage)
    /\ \E e \in available_montages : e.ref = Val(montage) /\ e.name # ret.name

-----------------------------------------------------------------------------
\* C18: a derivation call, whatever its outcome, leaves the raw buffers,
\* the registry and its channel lists, the active montage and the default
\* filters as they were; of the module's state only the input snapshot may
\* change (the output views are the ones handed to the call).
C18_CalculateFrame ==
    [][ (ret = NoRet /\ ret'.op = "calculate_signals") =>
            /\ raw' = raw
            /\ available_montages' = available_montages
            /\ heap' = heap
            /\ montage' = montage
            /\ filters' = filters
            /\ <<buffers, data_fields, data_pos, output>>'
                  = <<buffers, data_fields, data_pos, output>> ]_vars

\* A call has failed for missing data after it refreshed its snapshot, with
\* a montage active and a default filter set.
C18_Witness ==
    /\ Calculated
    /\ Failed
    /\ Reached # {}
    /\ ret.refreshed
    /\ ~IsNone(montage)
    /\ filters.highpass # DefaultFilters.highpass

-----------------------------------------------------------------------------
\* The channel selects a filter of the kind (no process default is set).
Selects(ch, kind) ==
    /\ ~IsNone(ch.filters)
    /\ ~IsNone(Val(ch.filters)[kind])
    /\ Val(Val(ch.filters)[kind]) # 0

\* The steps of a channel that is written, in their order.
StepsInOrder(ch) ==
    <<"freshness", "extract", "reference">>
        \o (IF Selects(ch, "highpass") THEN <<"highpass">> ELSE <<>>)
        \o (IF Selects(ch, "lowpass") THEN <<"lowpass">> ELSE <<>>)
        \o (IF Selects(ch, "notch") THEN <<"notch">> ELSE <<>>)
        \o <<"degap">>
        \o (IF ch.filter_len > 0 THEN <<"trim">> ELSE <<>>)
        \o <<"fit", "write">>

\* C19: a written channel has gone through freshness check, extraction,
\* reference subtraction, the selected filters in the order highpass,
\* lowpass, notch, gap removal, trim (with filter padding only), fit and
\* write, once each and in this order; a channel that failed has gone
\* through a beginning of that list and nothing after the failing step.
C19_StepsInOrder ==
    Calculated =>
        \A i \in Checked :
            LET all == StepsInOrder(ret.channels[i])
                steps == ret.log[i].steps
            IN  IF i \in Assigned THEN steps = all
                ELSE \E n \in 0 .. Len(all) - 1 : steps = SubSeq(all, 1, n)

\* A channel with all three filters and filter padding has been written.
C19_Witness ==
    /\ Calculated
    /\ \E i \in Assigned :
          /\ Len(ret.log[i].steps) = 10
          /\ ret.log[i].chain # <<>>
          /\ ret.log[i].trimmed # ret.log[i].degapped

-----------------------------------------------------------------------------
\* C20: biosignal_set_filter with a type other than highpass, lowpass and
\* notch returns success=false and leaves the default filters as they were;
\* with one of the three it changes the entry of that kind only, so the
\* default orders and the padding are never overwritten by it.
C20_SetFilterKindsOnly ==
    [][ (ret = NoRet /\ ret'.op = "set_filter") =>
            IF ret'.btype \in Range(FilterKinds)
            THEN \A key \in DOMAIN filters \ {ret'.btype} : filters'[key] = filters[key]
            ELSE ~ret'.success /\ filters' = filters ]_vars

-----------------------------------------------------------------------------
\* The filter of a kind designed from that kind's own entry of the dict fl.
OwnOrder(entry, kind) ==
    IF IsNone(entry.N) \/ Val(entry.N) = 0
    THEN (IF kind = "notch" THEN N_stop ELSE N_pass)
    ELSE Val(entry.N)
OwnBand(entry, kind) ==
    IF kind = "notch" THEN <<entry.Wn - 1, entry.Wn + 1>> ELSE <<entry.Wn>>
OwnDesign(fl, kind, fs) ==
    Butter(OwnOrder(fl[kind], kind), OwnBand(fl[kind], kind),
           IF kind = "notch" THEN "bandstop" ELSE kind, fs)

\* The kinds set in fl, in the order highpass, lowpass, notch, and whether
\* each of them can be designed and run on n samples.
KindsSet(fl) == SelectSeq(FilterKinds, LAMBDA kind : fl[kind].tag = "flt")
OwnDesignsOK(fl, n, fs) ==
    \A k \in DOMAIN KindsSet(fl) :
        LET kind == KindsSet(fl)[k]
        IN  /\ ButterOK(OwnOrder(fl[kind], kind), OwnBand(fl[kind], kind), fs)
            /\ SosFiltFiltOK(OwnDesign(fl, kind, fs), n)

\* C21: biosignal_filter_signal applies, for every kind that is set and in
\* the order highpass, lowpass, notch, the filter designed from that kind's
\* own Wn and N, and nothing for a kind that is None; when each of these
\* designs is valid for the signal the call succeeds.
C21_FiltersFromOwnParameters ==
    (ret.op = "filter_signal" /\ OwnDesignsOK(ret.used, ret.n, ret.fs)) =>
        /\ ret.success
        /\ ret.chain = [k \in DOMAIN KindsSet(ret.used) |->
                           OwnDesign(ret.used, KindsSet(ret.used)[k], ret.fs)]

-----------------------------------------------------------------------------
\* C22: a biosignal_set_default_filters call that returns success=false
\* leaves the default of every kind as it was before the call, and one that
\* succeeds changes the kinds given in its parameters only.
C22_SetDefaultsAllOrNothing ==
    [][ (ret = NoRet /\ ret'.op = "set_default_filters") =>
            IF ret'.success
            THEN \A key \in DOMAIN filters \ DOMAIN ret'.params : filters'[key] = filters[key]
            ELSE filters' = filters ]_vars

-----------------------------------------------------------------------------
\* The call just returned was made with the request, and said that the
\* data is not loaded yet.
NotReadyFor(channels) ==
    /\ Calculated
    /\ ret.channels = channels
    /\ Failed
    /\ Reached # {}

SucceededFor(channels) == Calculated /\ ret.channels = channels /\ Succeeded

\* C23: a derivation call never waits for the producer: whatever the
\* producer has loaded, the call returns with success or with "not loaded
\* yet".  A request that was answered "not loaded yet" and is made again
\* and again is answered with success=true in the end, the producer loading
\* the buffers to their full length meanwhile.
C23_RetrySucceeds ==
    /\ [](Calculated => (Succeeded \/ \E channels \in RetryRequests : NotReadyFor(channels)))
    /\ \A channels \in RetryRequests : NotReadyFor(channels) ~> SucceededFor(channels)

\* A request has been answered "not loaded yet" on buffers of which a part
\* is published.
C23_Witness ==
    /\ \E channels \in RetryRequests : NotReadyFor(channels)
    /\ \E b \in BufIds : UpdatedStart(raw[b]) # empty_field

=============================================================================
